---- MODULE Spec2Model ----
(***************************************************************************)
(* Issue lifecycle, notification dispatch and realtime rooms of the urban  *)
(* issue reporting platform (src/Project).                                  *)
(*                                                                         *)
(* Spec      : the REST handlers of routes/issues.js running concurrently  *)
(*             against the Issue / Notification collections.  Every await  *)
(*             of a handler that reads or writes a collection is a step.   *)
(* SpecSock  : the socket.io server of utils/socket.js.                     *)
(*                                                                         *)
(* Persistence follows mongoose: save() of a loaded document sends the     *)
(* delta of the modified paths ($set of scalars, $push of array pushes,    *)
(* $set of a spliced array guarded by the version key), after validating   *)
(* the document against the schema.  populate() only decorates the         *)
(* response and is not modelled.                                           *)
(***************************************************************************)
EXTENDS Integers, Sequences, FiniteSets, TLC

\* ---------------------------------------------------------------- bounds
MaxReqs == 3
MaxConc == 2
MaxIssues == 2
MaxConns == 2
MaxEvents == 2
MaxCalls == 6     \* calls of the rate guard
MaxPending == 2   \* requests waiting in front of the rate guard at once
MaxTime == 2      \* clock ticks
MaxRate == 5      \* largest maxRequests a guard is created with
MaxWindow == 2    \* largest windowMs a guard is created with, in ticks
MaxNotes == 2     \* direct calls of Notification.createNotification
MaxTimers == 2    \* reconnect timers of the client pending at once
MaxSockets == 7   \* sockets the client creates
MaxBlocks == 3    \* calls of ipBlocking.block

\* --------------------------------------------------------- schema enums
Statuses ==
  {"submitted", "acknowledged", "in_progress", "under_review", "resolved", "closed", "rejected"}

TimelineActions ==
  {"created", "acknowledged", "assigned", "in_progress", "under_review", "resolved",
   "closed", "rejected", "comment_added", "priority_changed"}

Departments == {"roads", "water", "garbage", "streetlights", "drainage", "parks", "general"}

Categories ==
  {"roads", "water", "garbage", "streetlights", "drainage", "parks", "buildings", "traffic",
   "noise", "other"}

\* a schema whose default status is not the initial one
DefaultStatusAcknowledged == "acknowledged"

DefaultStatus == "submitted"

\* ------------------------------------------------------ users collection
\* The stored users.  "ghost" is an id that a signed token can still carry
\* after its user record is gone.
Users == {"cit", "adm", "hd", "fo", "off"}

UserRole(u) ==
  CASE u = "adm" -> "admin"
    [] u = "hd" -> "department_head"
    [] u = "fo" -> "field_officer"
    [] u = "off" -> "department_head"
    [] OTHER -> "citizen"

UserDept(u) ==
  CASE u = "hd" -> "roads"
    [] u = "fo" -> "water"
    [] u = "off" -> "roads"
    [] OTHER -> "general"

UserActive(u) == u # "off"

\* ------------------------------------------------------------ credentials
NoCred == [k |-> "none", id |-> "-"]
Token(kind, u) == [k |-> kind, id |-> u]
Creds ==
  {NoCred, Token("malformed", "-"), Token("expired", "cit")}
    \cup {Token("valid", u) : u \in Users \cup {"ghost"}}

\* jwt.verify: the decoded id, or the error it throws
JwtVerify(c) ==
  CASE c.k = "valid" -> [ok |-> TRUE, id |-> c.id, err |-> "-"]
    [] c.k = "expired" -> [ok |-> FALSE, id |-> "-", err |-> "TokenExpiredError"]
    [] OTHER -> [ok |-> FALSE, id |-> "-", err |-> "JsonWebTokenError"]

\* authenticate: 0 and the user, or the status it answers
authenticate(c) ==
  IF c.k = "none" THEN [code |-> 401, user |-> "-"]
  ELSE LET d == JwtVerify(c) IN
    IF ~d.ok THEN [code |-> 401, user |-> "-"]
    ELSE IF d.id \notin Users THEN [code |-> 401, user |-> "-"]
    ELSE IF ~UserActive(d.id) THEN [code |-> 401, user |-> "-"]
    ELSE [code |-> 0, user |-> d.id]

\* authorize(...roles): 0 to continue, or the status it answers
authorize(roles, u) ==
  IF u = "-" THEN 401
  ELSE IF UserRole(u) \notin roles THEN 403
  ELSE 0

StatusRoles == {"admin", "department_head", "field_officer"}
AssignRoles == {"admin", "department_head"}

\* ---------------------------------------------------------------- state
VARIABLES
  issues,         \* Issue collection: id -> document
  nextId,         \* ids handed out so far
  notifications,  \* Notification collection, in insertion order
  outbox,         \* realtime emissions of createNotification, in order
  stats,          \* per user: issuesReported, contributionScore
  reqs,           \* request slots: requests in flight and the last finished ones
  started,        \* number of requests received
  attempts,       \* connection attempts so far: connection id -> credential presented
  socks,          \* io.sockets.sockets: connection id -> socket (user, rooms)
  inbox,          \* events delivered to each connection's client, in order
  emitted,        \* number of events emitted so far
  sent,           \* the events emitted by the server, in emission order
  limiter,        \* the rate guard created by rateLimit(maxRequests, windowMs), if any
  requests,       \* the guard's Map: key -> times of the calls it holds
  clock,          \* Date.now()
  pending,        \* requests that have reached the guard's place in the chain
  arrived,        \* number of requests that have reached the guard
  calls,          \* the guard's calls so far, in the order they ran
  reconnectAttempts, \* SocketManager.reconnectAttempts of the client
  timers,         \* setTimeout callbacks of handleReconnect that have not run yet
  clientSocks,    \* sockets the client's connect() has created
  clientUp,       \* those of them that are connected
  blockedIPs,     \* ipBlocking.blockedIPs
  blocks,         \* the calls of ipBlocking.block so far: ip, time, duration
  blockTimers     \* the calls whose setTimeout callback has not run yet

vars ==
  <<issues, nextId, notifications, outbox, stats, reqs, started, attempts, socks, inbox, emitted,
    sent, limiter, requests, clock, pending, arrived, calls,
    reconnectAttempts, timers, clientSocks, clientUp, blockedIPs, blocks, blockTimers>>
restVars == <<issues, nextId, notifications, outbox, stats, reqs, started>>
sockVars == <<attempts, socks, inbox, emitted, sent>>
rateVars == <<limiter, requests, clock, pending, arrived, calls>>
clientVars == <<reconnectAttempts, timers, clientSocks, clientUp>>
blockVars == <<blockedIPs, blocks, blockTimers>>

Slots == 1..MaxConc
RateSlots == 1..MaxPending
NoLimiter == [maxRequests |-> 0, windowMs |-> 0]
NoCall == [n |-> 0, user |-> "-", ip |-> "-"]
IssueIds == 1..MaxIssues

\* ---------------------------------------------------------- Issue model
NoAssign == [user |-> "-", department |-> "-", assignedAt |-> 0]

Entry(action, performedBy, metadata) ==
  [action |-> action, performedBy |-> performedBy, metadata |-> metadata]

NoMeta == [oldStatus |-> "-", newStatus |-> "-", department |-> "-"]

\* issueSchema.methods.addTimelineEntry: push onto the in-memory timeline
addTimelineEntry(doc, action, performedBy, metadata) ==
  [doc EXCEPT !.timeline = Append(@, Entry(action, performedBy, metadata))]

\* issueSchema.methods.updateStatus
updateStatusStampAlways(doc, newStatus, performedBy) ==
  LET oldStatus == doc.status
      d1 == [doc EXCEPT !.status = newStatus]
      d2 == addTimelineEntry(d1, newStatus, performedBy,
              [oldStatus |-> oldStatus, newStatus |-> newStatus, department |-> "-"])
  IN [d2 EXCEPT !.actualResolutionTime = TRUE]

updateStatus(doc, newStatus, performedBy) ==
  LET oldStatus == doc.status
      d1 == [doc EXCEPT !.status = newStatus]
      d2 == addTimelineEntry(d1, newStatus, performedBy,
              [oldStatus |-> oldStatus, newStatus |-> newStatus, department |-> "-"])
  IN IF newStatus = "resolved" THEN [d2 EXCEPT !.actualResolutionTime = TRUE] ELSE d2

\* issueSchema.methods.assignIssue; now stands for new Date()
\* an assignIssue that chains the transition to in_progress
assignIssueChained(doc, assignedUser, department, performedBy, now) ==
  addTimelineEntry(
    [doc EXCEPT !.status = "in_progress",
                !.assignedTo =
       [user |-> assignedUser, department |-> department, assignedAt |-> now]],
    "assigned", performedBy,
    [oldStatus |-> "-", newStatus |-> "-", department |-> department])

assignIssue(doc, assignedUser, department, performedBy, now) ==
  addTimelineEntry(
    [doc EXCEPT !.assignedTo =
       [user |-> assignedUser, department |-> department, assignedAt |-> now]],
    "assigned", performedBy,
    [oldStatus |-> "-", newStatus |-> "-", department |-> department])

\* new Issue({...}) with the schema defaults
NewIssue(category, reporter, title) ==
  [category |-> category, status |-> DefaultStatus, reportedBy |-> reporter,
   title |-> title, timeline |-> <<>>, assignedTo |-> NoAssign, views |-> 0,
   upvotes |-> <<>>, actualResolutionTime |-> FALSE, v |-> 0]

NoDoc == NewIssue("-", "-", "-")

\* schema validation run by save(): the enums of status and of timeline.action
ValidIssue(doc) ==
  /\ doc.status \in Statuses
  /\ doc.category \in Categories
  /\ \A k \in 1..Len(doc.timeline) : doc.timeline[k].action \in TimelineActions

\* entries pushed onto the loaded timeline since it was loaded
Pushed(loaded, modified) ==
  SubSeq(modified.timeline, Len(loaded.timeline) + 1, Len(modified.timeline))

\* a save that writes the in-memory array back instead of pushing onto the stored one
SaveTimelineWhole(stored, loaded, modified) == modified.timeline

\* save() of a loaded and then modified document: the stored document after the
\* delta is applied ($set status / assignedTo / views / actualResolutionTime,
\* $push timeline with the version increment)
SaveTimeline(stored, loaded, modified) == stored.timeline \o Pushed(loaded, modified)

SaveDelta(stored, loaded, modified) ==
  [stored EXCEPT
     !.status = IF modified.status # loaded.status THEN modified.status ELSE @,
     !.assignedTo = IF modified.assignedTo # loaded.assignedTo THEN modified.assignedTo ELSE @,
     !.views = IF modified.views # loaded.views THEN modified.views ELSE @,
     !.actualResolutionTime =
        IF modified.actualResolutionTime # loaded.actualResolutionTime
        THEN modified.actualResolutionTime ELSE @,
     !.timeline = SaveTimeline(stored, loaded, modified),
     !.v = IF Len(Pushed(loaded, modified)) > 0 THEN @ + 1 ELSE @]

\* save() after upvotes.push: $push of the new upvote; after upvotes.splice: $set
\* of the whole array, which mongoose guards with the version key it loaded
VersionConflict(stored, loaded, modified) ==
  /\ modified.upvotes # loaded.upvotes
  /\ Len(modified.upvotes) < Len(loaded.upvotes)
  /\ stored.v # loaded.v

SaveUpvotes(stored, loaded, modified) ==
  IF modified.upvotes = loaded.upvotes THEN stored
  ELSE IF Len(modified.upvotes) > Len(loaded.upvotes) THEN
    [stored EXCEPT
       !.upvotes = @ \o SubSeq(modified.upvotes, Len(loaded.upvotes) + 1, Len(modified.upvotes)),
       !.v = @ + 1]
  ELSE [stored EXCEPT !.upvotes = modified.upvotes, !.v = @ + 1]

\* ---------------------------------------------------- Notification model
\* the schema's defaults of channels.push and channels.inApp
\* readAt: Date, no default
NoDate == -1

DefaultChannels == [push |-> TRUE, email |-> FALSE, sms |-> FALSE, inApp |-> TRUE]

\* userSchema.preferences.notifications: the schema defaults, and the stored
\* preferences of the users, of whom hd has turned push off
SchemaPreferences == [email |-> TRUE, sms |-> FALSE, push |-> TRUE]

Preferences(u) ==
  IF u = "hd" THEN [SchemaPreferences EXCEPT !.push = FALSE] ELSE SchemaPreferences

Notif(recipient, sender, type, issue, slot) ==
  [recipient |-> recipient, sender |-> sender, type |-> type, relatedIssue |-> issue,
   slot |-> slot, channels |-> DefaultChannels, isRead |-> FALSE, readAt |-> NoDate]

\* the room names `user_${id}`, `role_${role}`, `dept_${department}`, `issue_${id}`
UserRoom(u) == [kind |-> "user", name |-> u]
RoleRoom(r) == [kind |-> "role", name |-> r]
DeptRoom(d) == [kind |-> "dept", name |-> d]
IssueRoom(i) == [kind |-> "issue", name |-> i]

\* ------------------------------------------------------------- requests
NoArg == [status |-> "-", category |-> "-", department |-> "-", assignee |-> "-", title |-> "-"]

Idle ==
  [kind |-> "-", pc |-> "idle", n |-> 0, user |-> "-", issue |-> 0, arg |-> NoArg,
   doc |-> NoDoc, res |-> 0, applied |-> FALSE, made |-> <<>>]

Free(s) == reqs[s].pc \in {"idle", "done"}

\* a request is taken by the lowest free slot
Accepts(s) ==
  /\ started < MaxReqs
  /\ Free(s)
  /\ \A t \in Slots : t < s => ~Free(t)

Request(kind, pc, user, i, arg, doc, res) ==
  [kind |-> kind, pc |-> pc, n |-> started + 1, user |-> user, issue |-> i, arg |-> arg,
   doc |-> doc, res |-> res, applied |-> FALSE, made |-> <<>>]

\* the answer is sent: the slot keeps what the request was and how it ended
Finish(r, code) ==
  [Idle EXCEPT !.kind = r.kind, !.pc = "done", !.user = r.user, !.issue = r.issue, !.res = code,
               !.applied = r.applied, !.made = r.made,
               !.arg = [NoArg EXCEPT !.assignee = r.arg.assignee, !.department = r.arg.department]]

Reject(kind, user, i, arg, code) == Finish(Request(kind, "new", user, i, arg, NoDoc, 0), code)

\* inputs of the REST handlers
RestCreds == {Token("expired", "cit")} \cup {Token("valid", u) : u \in {"cit", "adm", "hd", "fo"}}
CategoryInputs == {"roads", "water"}
StatusInputs == {"submitted", "acknowledged", "resolved", "closed", "bogus"}
DepartmentInputs == {"roads", "bogus"}
AssigneeInputs == {"-", "hd", "fo", "ghost"}

\* ---------------------------------------------------------------- Init
Init ==
  /\ issues = <<>>
  /\ nextId = 0
  /\ notifications = <<>>
  /\ outbox = <<>>
  /\ stats = [u \in Users |-> [issuesReported |-> 0, contributionScore |-> 0]]
  /\ reqs = [s \in Slots |-> Idle]
  /\ started = 0
  /\ attempts = <<>>
  /\ socks = <<>>
  /\ inbox = <<>>
  /\ emitted = 0
  /\ sent = <<>>
  /\ limiter = NoLimiter
  /\ requests = <<>>
  /\ clock = 0
  /\ pending = [s \in RateSlots |-> NoCall]
  /\ arrived = 0
  /\ calls = <<>>
  /\ reconnectAttempts = 0
  /\ timers = 0
  /\ clientSocks = 0
  /\ clientUp = 0
  /\ blockedIPs = {}
  /\ blocks = <<>>
  /\ blockTimers = {}

\* ------------------------------------------------- POST /api/issues
\* authenticate, validation, new Issue, the 'created' entry, issue.save()
CreateIssue(s, cred, category, title) ==
  LET a == authenticate(cred)
      arg == [NoArg EXCEPT !.category = category, !.title = title]
      id == nextId + 1
      doc == addTimelineEntry(NewIssue(category, a.user, title), "created", a.user, NoMeta)
  IN
  /\ Accepts(s)
  /\ id \in IssueIds
  /\ started' = started + 1
  /\ IF a.code # 0 THEN
       /\ reqs' = [reqs EXCEPT ![s] = Reject("create", "-", 0, arg, a.code)]
       /\ UNCHANGED <<issues, nextId>>
     ELSE IF category \notin Categories THEN
       /\ reqs' = [reqs EXCEPT ![s] = Reject("create", a.user, 0, arg, 400)]
       /\ UNCHANGED <<issues, nextId>>
     ELSE IF ~ValidIssue(doc) THEN
       /\ reqs' = [reqs EXCEPT ![s] = Reject("create", a.user, 0, arg, 500)]
       /\ UNCHANGED <<issues, nextId>>
     ELSE
       /\ issues' = [i \in DOMAIN issues \cup {id} |-> IF i = id THEN doc ELSE issues[i]]
       /\ nextId' = id
       /\ reqs' = [reqs EXCEPT ![s] = Request("create", "saved", a.user, id, arg, doc, 0)]
  /\ UNCHANGED <<notifications, outbox, stats>>
  /\ UNCHANGED <<sockVars, rateVars, clientVars, blockVars>>

\* req.user.updateOne($inc stats), then User.find(...): User is not imported in
\* routes/issues.js, the ReferenceError is caught and answered with 500
CreateFanout(s) ==
  LET r == reqs[s] IN
  /\ r.kind = "create" /\ r.pc = "saved"
  /\ stats' = [stats EXCEPT ![r.user].issuesReported = @ + 1,
                            ![r.user].contributionScore = @ + 10]
  /\ reqs' = [reqs EXCEPT ![s] = Finish(r, 500)]
  /\ UNCHANGED <<issues, nextId, notifications, outbox, started>>
  /\ UNCHANGED <<sockVars, rateVars, clientVars, blockVars>>

\* a dispatch that persists the record twice
createNotificationTwice(n, ok) ==
  IF ok THEN
    /\ notifications' = Append(Append(notifications, n), n)
    /\ outbox' = Append(outbox, [room |-> UserRoom(n.recipient), event |-> "notification",
                                 type |-> n.type])
  ELSE UNCHANGED <<notifications, outbox>>

\* a dispatch that emits before it saves: the emission is made whether or not
\* the record is persisted
createNotificationEmitFirst(n, ok) ==
  /\ outbox' = Append(outbox, [room |-> UserRoom(n.recipient), event |-> "notification",
                               type |-> n.type])
  /\ notifications' = IF ok THEN Append(notifications, n) ELSE notifications

\* Notification.createNotification: save the record, then emit it to the
\* recipient's user room.  ok is whether the save succeeds.
createNotification(n, ok) ==
  IF ok THEN
    /\ notifications' = Append(notifications, n)
    /\ outbox' = Append(outbox, [room |-> UserRoom(n.recipient), event |-> "notification",
                                 type |-> n.type])
  ELSE UNCHANGED <<notifications, outbox>>

\* ------------------------------------------- PATCH /api/issues/:id/status
\* a check that the actor has a department, not that it is the issue's
DepartmentMismatchAnyDept(u, doc) == UserRole(u) # "admin" /\ UserDept(u) = "general"

\* req.user.role !== 'admin' && req.user.department !== issue.category
DepartmentMismatch(u, doc) == UserRole(u) # "admin" /\ UserDept(u) # doc.category

\* authenticate, authorize, validation, Issue.findById, department check
StatusArrive(s, cred, i, status) ==
  LET a == authenticate(cred)
      z == authorize(StatusRoles, a.user)
      arg == [NoArg EXCEPT !.status = status]
      code ==
        IF a.code # 0 THEN a.code
        ELSE IF z # 0 THEN z
        ELSE IF status \notin Statuses THEN 400
        ELSE IF i \notin DOMAIN issues THEN 404
        ELSE IF DepartmentMismatch(a.user, issues[i]) THEN 403
        ELSE 0
  IN
  /\ Accepts(s)
  /\ started' = started + 1
  /\ reqs' = [reqs EXCEPT ![s] =
       IF code # 0 THEN Reject("status", a.user, i, arg, code)
       ELSE Request("status", "loaded", a.user, i, arg, issues[i], 0)]
  /\ UNCHANGED <<issues, nextId, notifications, outbox, stats>>
  /\ UNCHANGED <<sockVars, rateVars, clientVars, blockVars>>

\* issue.updateStatus(status, req.user._id, notes); await issue.save()
StatusSave(s) ==
  LET r == reqs[s]
      modified == updateStatus(r.doc, r.arg.status, r.user)
  IN
  /\ r.kind = "status" /\ r.pc = "loaded"
  /\ IF ~ValidIssue(modified) \/ r.issue \notin DOMAIN issues THEN
       /\ reqs' = [reqs EXCEPT ![s] = Finish(r, 500)]
       /\ UNCHANGED issues
     ELSE
       /\ issues' = [issues EXCEPT ![r.issue] = SaveDelta(@, r.doc, modified)]
       /\ reqs' = [reqs EXCEPT ![s] = [r EXCEPT !.pc = "saved", !.applied = TRUE]]
  /\ UNCHANGED <<nextId, notifications, outbox, stats, started>>
  /\ UNCHANGED <<sockVars, rateVars, clientVars, blockVars>>

\* await Notification.createNotification({recipient: issue.reportedBy, ...}),
\* then the 200 answer; a failed save of the notification is caught: 500
StatusNotify(s, ok) ==
  LET r == reqs[s]
      n == Notif(r.doc.reportedBy, r.user, "issue_updated", r.issue, s)
  IN
  /\ r.kind = "status" /\ r.pc = "saved"
  /\ createNotification(n, ok)
  /\ reqs' = [reqs EXCEPT ![s] =
       IF ok THEN [Finish(r, 200) EXCEPT !.made = Append(@, n.recipient)]
       ELSE Finish(r, 500)]
  /\ UNCHANGED <<issues, nextId, stats, started>>
  /\ UNCHANGED <<sockVars, rateVars, clientVars, blockVars>>

\* ------------------------------------------- PATCH /api/issues/:id/assign
\* authenticate, authorize, validation, Issue.findById, then the lookup of the
\* assignee: User is not imported in routes/issues.js, so a request that names an
\* assignee throws a ReferenceError, which is answered with 500
AssignArrive(s, cred, i, department, assignee) ==
  LET a == authenticate(cred)
      z == authorize(AssignRoles, a.user)
      arg == [NoArg EXCEPT !.department = department, !.assignee = assignee]
      code ==
        IF a.code # 0 THEN a.code
        ELSE IF z # 0 THEN z
        ELSE IF department \notin Departments THEN 400
        ELSE IF i \notin DOMAIN issues THEN 404
        ELSE IF assignee # "-" THEN 500
        ELSE 0
  IN
  /\ Accepts(s)
  /\ started' = started + 1
  /\ reqs' = [reqs EXCEPT ![s] =
       IF code # 0 THEN Reject("assign", a.user, i, arg, code)
       ELSE Request("assign", "loaded", a.user, i, arg, issues[i], 0)]
  /\ UNCHANGED <<issues, nextId, notifications, outbox, stats>>
  /\ UNCHANGED <<sockVars, rateVars, clientVars, blockVars>>

\* issue.assignIssue(assignedUserId, department, req.user._id); await issue.save()
AssignSave(s) ==
  LET r == reqs[s]
      modified == assignIssue(r.doc, r.arg.assignee, r.arg.department, r.user, r.n)
  IN
  /\ r.kind = "assign" /\ r.pc = "loaded"
  /\ IF ~ValidIssue(modified) \/ r.issue \notin DOMAIN issues THEN
       /\ reqs' = [reqs EXCEPT ![s] = Finish(r, 500)]
       /\ UNCHANGED issues
     ELSE
       /\ issues' = [issues EXCEPT ![r.issue] = SaveDelta(@, r.doc, modified)]
       /\ reqs' = [reqs EXCEPT ![s] = [r EXCEPT !.pc = "saved", !.applied = TRUE]]
  /\ UNCHANGED <<nextId, notifications, outbox, stats, started>>
  /\ UNCHANGED <<sockVars, rateVars, clientVars, blockVars>>

\* Promise.all of the createNotification calls: one for the reporter and, with an
\* assignee, one for the assignee; every call runs, one failure rejects the whole
AssignNotify(s, okReporter, okAssignee) ==
  LET r == reqs[s]
      n1 == Notif(r.doc.reportedBy, r.user, "issue_assigned", r.issue, s)
      n2 == Notif(r.arg.assignee, r.user, "issue_assigned", r.issue, s)
      toSave == (IF okReporter THEN <<n1>> ELSE <<>>)
                  \o (IF r.arg.assignee # "-" /\ okAssignee THEN <<n2>> ELSE <<>>)
      allOk == okReporter /\ (r.arg.assignee = "-" \/ okAssignee)
  IN
  /\ r.kind = "assign" /\ r.pc = "saved"
  /\ r.arg.assignee = "-" => okAssignee
  /\ notifications' = notifications \o toSave
  /\ outbox' = outbox \o [k \in 1..Len(toSave) |->
                 [room |-> UserRoom(toSave[k].recipient), event |-> "notification",
                  type |-> toSave[k].type]]
  /\ reqs' = [reqs EXCEPT ![s] =
       [Finish(r, IF allOk THEN 200 ELSE 500) EXCEPT
          !.made = [k \in 1..Len(toSave) |-> toSave[k].recipient]]]
  /\ UNCHANGED <<issues, nextId, stats, started>>
  /\ UNCHANGED <<sockVars, rateVars, clientVars, blockVars>>

\* ------------------------------------------------- PUT /api/issues/:id
\* authenticate, authorizeOwnershipOrRole, Issue.findById, the citizen rule
UpdateArrive(s, cred, i, title) ==
  LET a == authenticate(cred)
      arg == [NoArg EXCEPT !.title = title]
      staff == UserRole(a.user) \in {"admin", "department_head", "field_officer"}
      code ==
        IF a.code # 0 THEN a.code
        ELSE IF i \notin DOMAIN issues THEN 404
        ELSE IF ~staff /\ issues[i].reportedBy # a.user THEN 403
        ELSE IF UserRole(a.user) = "citizen" /\ issues[i].reportedBy = a.user
                /\ issues[i].status # "submitted" THEN 403
        ELSE 0
  IN
  /\ Accepts(s)
  /\ started' = started + 1
  /\ reqs' = [reqs EXCEPT ![s] =
       IF code # 0 THEN Reject("update", a.user, i, arg, code)
       ELSE Request("update", "loaded", a.user, i, arg, issues[i], 0)]
  /\ UNCHANGED <<issues, nextId, notifications, outbox, stats>>
  /\ UNCHANGED <<sockVars, rateVars, clientVars, blockVars>>

\* an update that copies req.body into the document, status included
UpdateApplyMassAssign(s) ==
  LET r == reqs[s]
      found == r.issue \in DOMAIN issues
      updated == [issues[r.issue] EXCEPT !.title = r.arg.title, !.status = "closed"]
  IN
  /\ r.kind = "update" /\ r.pc = "loaded"
  /\ IF ~found THEN
       /\ reqs' = [reqs EXCEPT ![s] = Finish(r, 500)]
       /\ UNCHANGED issues
     ELSE
       /\ issues' = [issues EXCEPT ![r.issue] = updated]
       /\ reqs' = [reqs EXCEPT ![s] = Finish(r, 500)]
  /\ UNCHANGED <<nextId, notifications, outbox, stats, started>>
  /\ UNCHANGED <<sockVars, rateVars, clientVars, blockVars>>

\* Issue.findByIdAndUpdate(id, updates), then the 'updated' timeline entry and
\* save(): 'updated' is not in the enum of timeline.action, the save is refused by
\* validation and the request answers 500 with the fields already written
UpdateApply(s) ==
  LET r == reqs[s]
      found == r.issue \in DOMAIN issues
      updated == [issues[r.issue] EXCEPT !.title = r.arg.title]
      modified == addTimelineEntry(updated, "updated", r.user, NoMeta)
  IN
  /\ r.kind = "update" /\ r.pc = "loaded"
  /\ IF ~found THEN
       /\ reqs' = [reqs EXCEPT ![s] = Finish(r, 500)]
       /\ UNCHANGED issues
     ELSE IF ~ValidIssue(modified) THEN
       /\ issues' = [issues EXCEPT ![r.issue] = updated]
       /\ reqs' = [reqs EXCEPT ![s] = Finish(r, 500)]
     ELSE
       /\ issues' = [issues EXCEPT ![r.issue] = SaveDelta(updated, updated, modified)]
       /\ reqs' = [reqs EXCEPT ![s] = Finish([r EXCEPT !.applied = TRUE], 200)]
  /\ UNCHANGED <<nextId, notifications, outbox, stats, started>>
  /\ UNCHANGED <<sockVars, rateVars, clientVars, blockVars>>

\* ------------------------------------------- POST /api/issues/:id/upvote
UpvoteArrive(s, cred, i) ==
  LET a == authenticate(cred)
      code == IF a.code # 0 THEN a.code ELSE IF i \notin DOMAIN issues THEN 404 ELSE 0
  IN
  /\ Accepts(s)
  /\ started' = started + 1
  /\ reqs' = [reqs EXCEPT ![s] =
       IF code # 0 THEN Reject("upvote", a.user, i, NoArg, code)
       ELSE Request("upvote", "loaded", a.user, i, NoArg, issues[i], 0)]
  /\ UNCHANGED <<issues, nextId, notifications, outbox, stats>>
  /\ UNCHANGED <<sockVars, rateVars, clientVars, blockVars>>

\* the toggle on the loaded document: findIndex, then splice(index, 1) of the
\* first upvote of the user, or push
ToggleUpvote(doc, u) ==
  LET found == {k \in 1..Len(doc.upvotes) : doc.upvotes[k] = u} IN
  IF found # {}
  THEN LET existingUpvoteIndex == CHOOSE k \in found : \A j \in found : k <= j IN
       [doc EXCEPT !.upvotes =
          SubSeq(@, 1, existingUpvoteIndex - 1) \o SubSeq(@, existingUpvoteIndex + 1, Len(@))]
  ELSE [doc EXCEPT !.upvotes = Append(@, u)]

\* splice or push, the contribution score of a new upvote, issue.save()
UpvoteSave(s) ==
  LET r == reqs[s]
      modified == ToggleUpvote(r.doc, r.user)
      added == Len(modified.upvotes) > Len(r.doc.upvotes)
  IN
  /\ r.kind = "upvote" /\ r.pc = "loaded"
  /\ stats' = IF added THEN [stats EXCEPT ![r.user].contributionScore = @ + 1] ELSE stats
  /\ IF r.issue \notin DOMAIN issues THEN
       /\ reqs' = [reqs EXCEPT ![s] = Finish(r, 500)]
       /\ UNCHANGED issues
     ELSE IF VersionConflict(issues[r.issue], r.doc, modified) THEN
       /\ reqs' = [reqs EXCEPT ![s] = Finish(r, 500)]
       /\ UNCHANGED issues
     ELSE
       /\ issues' = [issues EXCEPT ![r.issue] = SaveUpvotes(@, r.doc, modified)]
       /\ reqs' = [reqs EXCEPT ![s] = Finish([r EXCEPT !.applied = TRUE], 200)]
  /\ UNCHANGED <<nextId, notifications, outbox, started>>
  /\ UNCHANGED <<sockVars, rateVars, clientVars, blockVars>>

\* ------------------------------------------------- GET /api/issues/:id
\* optionalAuth never refuses; Issue.findById
ViewArrive(s, i) ==
  /\ Accepts(s)
  /\ started' = started + 1
  /\ reqs' = [reqs EXCEPT ![s] =
       IF i \notin DOMAIN issues THEN Reject("view", "-", i, NoArg, 404)
       ELSE Request("view", "loaded", "-", i, NoArg, issues[i], 0)]
  /\ UNCHANGED <<issues, nextId, notifications, outbox, stats>>
  /\ UNCHANGED <<sockVars, rateVars, clientVars, blockVars>>

\* issue.views += 1; await issue.save()
ViewSave(s) ==
  LET r == reqs[s]
      modified == [r.doc EXCEPT !.views = @ + 1]
  IN
  /\ r.kind = "view" /\ r.pc = "loaded"
  /\ IF r.issue \notin DOMAIN issues THEN
       /\ reqs' = [reqs EXCEPT ![s] = Finish(r, 500)]
       /\ UNCHANGED issues
     ELSE
       /\ issues' = [issues EXCEPT ![r.issue] = SaveDelta(@, r.doc, modified)]
       /\ reqs' = [reqs EXCEPT ![s] = Finish([r EXCEPT !.applied = TRUE], 200)]
  /\ UNCHANGED <<nextId, notifications, outbox, stats, started>>
  /\ UNCHANGED <<sockVars, rateVars, clientVars, blockVars>>

\* ------------------------------------------------- DELETE /api/issues/:id
DeleteArrive(s, cred, i) ==
  LET a == authenticate(cred)
      code ==
        IF a.code # 0 THEN a.code
        ELSE IF i \notin DOMAIN issues THEN 404
        ELSE IF UserRole(a.user) # "admin"
                /\ (issues[i].reportedBy # a.user \/ issues[i].status # "submitted") THEN 403
        ELSE 0
  IN
  /\ Accepts(s)
  /\ started' = started + 1
  /\ reqs' = [reqs EXCEPT ![s] =
       IF code # 0 THEN Reject("delete", a.user, i, NoArg, code)
       ELSE Request("delete", "loaded", a.user, i, NoArg, issues[i], 0)]
  /\ UNCHANGED <<issues, nextId, notifications, outbox, stats>>
  /\ UNCHANGED <<sockVars, rateVars, clientVars, blockVars>>

\* Issue.findByIdAndDelete, Comment.deleteMany, Notification.deleteMany
DeleteApply(s) ==
  LET r == reqs[s] IN
  /\ r.kind = "delete" /\ r.pc = "loaded"
  /\ issues' = [i \in DOMAIN issues \ {r.issue} |-> issues[i]]
  /\ notifications' = SelectSeq(notifications, LAMBDA n : n.relatedIssue # r.issue)
  /\ reqs' = [reqs EXCEPT ![s] = Finish([r EXCEPT !.applied = TRUE], 200)]
  /\ UNCHANGED <<nextId, outbox, stats, started>>
  /\ UNCHANGED <<sockVars, rateVars, clientVars, blockVars>>

Next ==
  \/ \E s \in Slots, c \in RestCreds, cat \in CategoryInputs : CreateIssue(s, c, cat, "t0")
  \/ \E s \in Slots : CreateFanout(s)
  \/ \E s \in Slots, c \in RestCreds, i \in IssueIds, st \in StatusInputs : StatusArrive(s, c, i, st)
  \/ \E s \in Slots : StatusSave(s)
  \/ \E s \in Slots, ok \in BOOLEAN : StatusNotify(s, ok)
  \/ \E s \in Slots, c \in RestCreds, i \in IssueIds, d \in DepartmentInputs,
        u \in AssigneeInputs : AssignArrive(s, c, i, d, u)
  \/ \E s \in Slots : AssignSave(s)
  \/ \E s \in Slots, ok1 \in BOOLEAN, ok2 \in BOOLEAN : AssignNotify(s, ok1, ok2)
  \/ \E s \in Slots, c \in RestCreds, i \in IssueIds : UpdateArrive(s, c, i, "t1")
  \/ \E s \in Slots : UpdateApply(s)
  \/ \E s \in Slots, c \in RestCreds, i \in IssueIds : UpvoteArrive(s, c, i)
  \/ \E s \in Slots : UpvoteSave(s)
  \/ \E s \in Slots, i \in IssueIds : ViewArrive(s, i)
  \/ \E s \in Slots : ViewSave(s)
  \/ \E s \in Slots, c \in RestCreds, i \in IssueIds : DeleteArrive(s, c, i)
  \/ \E s \in Slots : DeleteApply(s)

\* ------------------------------------------------------ utils/socket.js
\* a middleware that forgets the isActive test
HandshakeOkInactive(c) ==
  /\ c.k # "none"
  /\ JwtVerify(c).ok
  /\ JwtVerify(c).id \in Users

\* io.use(...): the handshake middleware.  TRUE when it calls next() without an
\* error, with the user it binds to the socket
HandshakeOk(c) ==
  /\ c.k # "none"
  /\ JwtVerify(c).ok
  /\ JwtVerify(c).id \in Users
  /\ UserActive(JwtVerify(c).id)

\* a connection handler that reads an id the socket does not carry: every socket
\* joins the room user_undefined
ConnectRoomsNoUserId(u) ==
  {UserRoom("undefined"), RoleRoom(UserRole(u))}
    \cup (IF UserDept(u) # "general" THEN {DeptRoom(UserDept(u))} ELSE {})

\* the rooms joined by the connection handler
ConnectRooms(u) ==
  {UserRoom(u), RoleRoom(UserRole(u))}
    \cup (IF UserDept(u) # "general" THEN {DeptRoom(UserDept(u))} ELSE {})

\* rooms computed from the identity of everyone who ever connected: membership
\* that a disconnect does not revoke
InRoomEver(room) ==
  {c \in DOMAIN inbox : HandshakeOk(attempts[c]) /\ room \in ConnectRooms(JwtVerify(attempts[c]).id)}

\* the sockets of a room
InRoom(room) == {c \in DOMAIN socks : room \in socks[c].rooms}

\* an emit whose packet overtakes the ones already written to the socket
DeliverFirst(targets, ev) ==
  /\ emitted < MaxEvents
  /\ emitted' = emitted + 1
  /\ sent' = Append(sent, [ev EXCEPT !.seq = emitted + 1])
  /\ inbox' = [c \in DOMAIN inbox |->
       IF c \in targets THEN <<[ev EXCEPT !.seq = emitted + 1]>> \o inbox[c] ELSE inbox[c]]

\* emit to a set of sockets: each client receives the event after those it has
Deliver(targets, ev) ==
  /\ emitted < MaxEvents
  /\ emitted' = emitted + 1
  /\ sent' = Append(sent, [ev EXCEPT !.seq = emitted + 1])
  /\ inbox' = [c \in DOMAIN inbox |->
       IF c \in targets THEN Append(inbox[c], [ev EXCEPT !.seq = emitted + 1]) ELSE inbox[c]]

Event(name, room, from, data) ==
  [event |-> name, room |-> room, from |-> from, data |-> data, seq |-> 0]

\* a connection attempt: the middleware, then the 'connection' handler
Connect(cred) ==
  LET c == Len(attempts) + 1
      u == JwtVerify(cred).id
  IN
  /\ c <= MaxConns
  /\ attempts' = Append(attempts, cred)
  /\ inbox' = Append(inbox, <<>>)
  /\ socks' =
       IF HandshakeOk(cred)
       THEN [x \in DOMAIN socks \cup {c} |->
               IF x = c THEN [user |-> u, rooms |-> ConnectRooms(u)] ELSE socks[x]]
       ELSE socks
  /\ UNCHANGED <<emitted, sent>>
  /\ UNCHANGED <<restVars, rateVars, clientVars, blockVars>>

\* a join_issue that joins the room the client names, without the issue_ prefix:
\* a client naming role_admin enters the admins' room
\* socket.join(room) / socket.leave(room) on the socket's Set of rooms
socketJoin(rooms, room) == rooms \cup {room}

socketLeaveAll(rooms, room) == {}

socketLeave(rooms, room) == rooms \ {room}

JoinIssueUnprefixed(c, issueId) ==
  /\ c \in DOMAIN socks
  /\ socks' = [socks EXCEPT ![c].rooms = @ \cup {RoleRoom("admin")}]
  /\ UNCHANGED <<attempts, inbox, emitted, sent>>
  /\ UNCHANGED <<restVars, rateVars, clientVars, blockVars>>

\* socket.on('join_issue') / socket.on('leave_issue')
JoinIssue(c, issueId) ==
  /\ c \in DOMAIN socks
  /\ socks' = [socks EXCEPT ![c].rooms = socketJoin(@, IssueRoom(issueId))]
  /\ UNCHANGED <<attempts, inbox, emitted, sent>>
  /\ UNCHANGED <<restVars, rateVars, clientVars, blockVars>>

LeaveIssue(c, issueId) ==
  /\ c \in DOMAIN socks
  /\ socks' = [socks EXCEPT ![c].rooms = socketLeave(@, IssueRoom(issueId))]
  /\ UNCHANGED <<attempts, inbox, emitted, sent>>
  /\ UNCHANGED <<restVars, rateVars, clientVars, blockVars>>

\* socket.to(room).emit(...): every socket of the room but the sender
ToRoom(c, room, name, data) ==
  /\ c \in DOMAIN socks
  /\ Deliver(InRoom(room) \ {c}, Event(name, room, socks[c].user, data))
  /\ UNCHANGED <<attempts, socks>>
  /\ UNCHANGED <<restVars, rateVars, clientVars, blockVars>>

TypingStart(c, issueId) == ToRoom(c, IssueRoom(issueId), "user_typing", issueId)
TypingStop(c, issueId) == ToRoom(c, IssueRoom(issueId), "user_stopped_typing", issueId)
IssueStatusUpdate(c, issueId, status) ==
  ToRoom(c, IssueRoom(issueId), "issue_updated", status)
NewComment(c, issueId) == ToRoom(c, IssueRoom(issueId), "comment_added", issueId)
DirectMessage(c, recipientId) == ToRoom(c, UserRoom(recipientId), "new_message", recipientId)

\* socket.on('update_location'): field officers only
UpdateLocation(c) ==
  /\ c \in DOMAIN socks
  /\ UserRole(socks[c].user) = "field_officer"
  /\ ToRoom(c, DeptRoom(UserDept(socks[c].user)), "officer_location_update", "loc")

\* an emergency_alert handler without the test of the role
EmergencyAlertAnyRole(c) ==
  /\ c \in DOMAIN socks
  /\ Deliver(DOMAIN socks, Event("emergency_notification", RoleRoom("*"), socks[c].user, "alert"))
  /\ UNCHANGED <<attempts, socks>>
  /\ UNCHANGED <<restVars, rateVars, clientVars, blockVars>>

\* socket.on('emergency_alert'): io.emit to every socket, admins only
EmergencyAlert(c) ==
  /\ c \in DOMAIN socks
  /\ UserRole(socks[c].user) = "admin"
  /\ Deliver(DOMAIN socks, Event("emergency_notification", RoleRoom("*"), socks[c].user, "alert"))
  /\ UNCHANGED <<attempts, socks>>
  /\ UNCHANGED <<restVars, rateVars, clientVars, blockVars>>

\* socket.on('disconnect'): the socket has left its rooms and the namespace when
\* the handler runs, so its loop over socket.rooms finds no issue room
Disconnect(c) ==
  /\ c \in DOMAIN socks
  /\ socks' = [x \in DOMAIN socks \ {c} |-> socks[x]]
  /\ UNCHANGED <<attempts, inbox, emitted, sent>>
  /\ UNCHANGED <<restVars, rateVars, clientVars, blockVars>>

\* an emit that ignores the room and reaches every socket
emitToRoomBroadcast(room, name) ==
  /\ Deliver(DOMAIN socks, Event(name, room, "server", "-"))
  /\ UNCHANGED <<attempts, socks>>
  /\ UNCHANGED <<restVars, rateVars, clientVars, blockVars>>

\* emitToUser / emitToRole / emitToDepartment / emitToIssue: io.to(room).emit
emitToRoom(room, name) ==
  /\ Deliver(InRoom(room), Event(name, room, "server", "-"))
  /\ UNCHANGED <<attempts, socks>>
  /\ UNCHANGED <<restVars, rateVars, clientVars, blockVars>>

emitToUser(u, name) == emitToRoom(UserRoom(u), name)
emitToRole(r, name) == emitToRoom(RoleRoom(r), name)
emitToDepartment(d, name) == emitToRoom(DeptRoom(d), name)
emitToIssue(i, name) == emitToRoom(IssueRoom(i), name)

\* io.sockets.sockets.forEach(socket => if (socket.user) users.push(...))
getConnectedUsers == [c \in DOMAIN socks |-> socks[c].user]

SockUsers == {"cit", "adm", "fo"}

NextSock ==
  \/ \E cred \in Creds : Connect(cred)
  \/ \E c \in 1..MaxConns : JoinIssue(c, 1)
  \/ \E c \in 1..MaxConns : LeaveIssue(c, 1)
  \/ \E c \in 1..MaxConns : TypingStart(c, 1)
  \/ \E c \in 1..MaxConns : TypingStop(c, 1)
  \/ \E c \in 1..MaxConns : IssueStatusUpdate(c, 1, "resolved")
  \/ \E c \in 1..MaxConns : NewComment(c, 1)
  \/ \E c \in 1..MaxConns, u \in SockUsers : DirectMessage(c, u)
  \/ \E c \in 1..MaxConns : UpdateLocation(c)
  \/ \E c \in 1..MaxConns : EmergencyAlert(c)
  \/ \E c \in 1..MaxConns : Disconnect(c)
  \/ \E u \in SockUsers : emitToUser(u, "notification")
  \/ \E r \in {"admin", "citizen"} : emitToRole(r, "role_event")
  \/ \E d \in {"water"} : emitToDepartment(d, "dept_event")
  \/ emitToIssue(1, "issue_updated")

SpecSock == Init /\ [][NextSock]_vars

\* ------------------------------------------------- middleware/auth.js
\* a guard that compares with > where the code compares with >=
rateLimitOffByOne(maxRequests, windowMs, map, userId, now) ==
  LET userRequests == IF userId \in DOMAIN map THEN map[userId] ELSE <<>>
      validRequests == SelectSeq(userRequests, LAMBDA time : now - time < windowMs)
      Set(v) == [k \in DOMAIN map \cup {userId} |-> IF k = userId THEN v ELSE map[k]]
  IN IF Len(validRequests) > maxRequests
     THEN [code |-> 429, requests |-> Set(userRequests)]
     ELSE [code |-> 0, requests |-> Set(Append(validRequests, now))]

\* a guard that forgets requests.set(userId, validRequests)
rateLimitNoRecord(maxRequests, windowMs, map, userId, now) ==
  LET userRequests == IF userId \in DOMAIN map THEN map[userId] ELSE <<>>
      validRequests == SelectSeq(userRequests, LAMBDA time : now - time < windowMs)
      Set(v) == [k \in DOMAIN map \cup {userId} |-> IF k = userId THEN v ELSE map[k]]
  IN IF Len(validRequests) >= maxRequests
     THEN [code |-> 429, requests |-> Set(userRequests)]
     ELSE [code |-> 0, requests |-> Set(userRequests)]

\* a guard that records the calls it refuses as well
rateLimitRecordRejected(maxRequests, windowMs, map, userId, now) ==
  LET userRequests == IF userId \in DOMAIN map THEN map[userId] ELSE <<>>
      validRequests == SelectSeq(userRequests, LAMBDA time : now - time < windowMs)
      Set(v) == [k \in DOMAIN map \cup {userId} |-> IF k = userId THEN v ELSE map[k]]
  IN IF Len(validRequests) >= maxRequests
     THEN [code |-> 429, requests |-> Set(Append(validRequests, now))]
     ELSE [code |-> 0, requests |-> Set(Append(validRequests, now))]

\* the middleware returned by rateLimit(maxRequests, windowMs), run on the Map:
\* code 429 when it answers, 0 when it calls next(); requests is the Map after it
rateLimit(maxRequests, windowMs, map, userId, now) ==
  LET userRequests == IF userId \in DOMAIN map THEN map[userId] ELSE <<>>
      validRequests == SelectSeq(userRequests, LAMBDA time : now - time < windowMs)
      Set(v) == [k \in DOMAIN map \cup {userId} |-> IF k = userId THEN v ELSE map[k]]
  IN IF Len(validRequests) >= maxRequests
     THEN [code |-> 429, requests |-> Set(userRequests)]
     ELSE [code |-> 0, requests |-> Set(Append(validRequests, now))]

\* const userId = req.user?._id?.toString() || req.ip
RateKey(r) == IF r.user # "-" THEN r.user ELSE r.ip

\* rateLimit(maxRequests, windowMs): the guard and its empty Map are created
RateCreate(maxRequests, windowMs) ==
  /\ limiter = NoLimiter
  /\ limiter' = [maxRequests |-> maxRequests, windowMs |-> windowMs]
  /\ requests' = <<>>
  /\ UNCHANGED <<clock, pending, arrived, calls>>
  /\ UNCHANGED <<restVars, sockVars, clientVars, blockVars>>

\* a request reaches the guard's place in the chain: what runs before the guard
\* (authenticate, with its awaits) is over, the guard has not run yet
RateArrive(s, user, ip) ==
  /\ limiter # NoLimiter
  /\ pending[s] = NoCall
  /\ arrived < MaxCalls
  /\ arrived' = arrived + 1
  /\ pending' = [pending EXCEPT ![s] = [n |-> arrived + 1, user |-> user, ip |-> ip]]
  /\ UNCHANGED <<limiter, requests, clock, calls>>
  /\ UNCHANGED <<restVars, sockVars, clientVars, blockVars>>

\* the guard runs for the request of slot s: synchronous code without an await,
\* one step of the event loop
RateRun(s) ==
  LET r == pending[s]
      out == rateLimit(limiter.maxRequests, limiter.windowMs, requests, RateKey(r), clock)
  IN
  /\ r # NoCall
  /\ requests' = out.requests
  /\ calls' = Append(calls,
       [n |-> r.n, key |-> RateKey(r), at |-> clock, ok |-> out.code = 0,
        others |-> {pending[t].n : t \in {t \in RateSlots \ {s} :
                       pending[t] # NoCall /\ RateKey(pending[t]) = RateKey(r)}}])
  /\ pending' = [pending EXCEPT ![s] = NoCall]
  /\ UNCHANGED <<limiter, clock, arrived>>
  /\ UNCHANGED <<restVars, sockVars, clientVars, blockVars>>

\* time passes
Tick ==
  /\ clock < MaxTime
  /\ clock' = clock + 1
  /\ UNCHANGED <<limiter, requests, pending, arrived, calls>>
  /\ UNCHANGED <<restVars, sockVars, clientVars, blockVars>>

NextRate ==
  \/ \E m \in {1, MaxRate}, w \in 1..MaxWindow : RateCreate(m, w)
  \/ \E s \in RateSlots, user \in {"-", "cit"}, ip \in {"ip1"} : RateArrive(s, user, ip)
  \/ \E s \in RateSlots : RateRun(s)
  \/ Tick

SpecRate == Init /\ [][NextRate]_vars

\* ------------------------------------------------ models/Notification.js
\* Notification.createNotification(data) called with the channels the caller
\* chooses; ok is whether notification.save() succeeds
NotifyDirect(recipient, push, inApp, ok) ==
  /\ Len(notifications) < MaxNotes
  /\ createNotification(
       [Notif(recipient, "-", "system_announcement", 0, 0) EXCEPT
          !.channels = [DefaultChannels EXCEPT !.push = push, !.inApp = inApp]], ok)
  /\ UNCHANGED <<issues, nextId, stats, reqs, started>>
  /\ UNCHANGED <<sockVars, rateVars, clientVars, blockVars>>

NextNotify ==
  \E recipient \in {"cit", "adm", "hd"}, push \in BOOLEAN, inApp \in BOOLEAN, ok \in BOOLEAN :
    NotifyDirect(recipient, push, inApp, ok)

SpecNotify == Init /\ [][NextNotify]_vars

\* notificationSchema.methods.markAsRead
markAsRead(doc, now) == [doc EXCEPT !.isRead = TRUE, !.readAt = now]

markAllAsReadEveryone(coll, userId, now) ==
  [k \in 1..Len(coll) |->
     IF ~coll[k].isRead
     THEN [coll[k] EXCEPT !.isRead = TRUE, !.readAt = now]
     ELSE coll[k]]

\* notificationSchema.statics.markAllAsRead:
\* updateMany({recipient: userId, isRead: false}, {isRead: true, readAt: new Date()})
markAllAsRead(coll, userId, now) ==
  [k \in 1..Len(coll) |->
     IF coll[k].recipient = userId /\ ~coll[k].isRead
     THEN [coll[k] EXCEPT !.isRead = TRUE, !.readAt = now]
     ELSE coll[k]]

\* markAsRead() on the k-th document, then its save
MarkAsRead(k) ==
  /\ k \in 1..Len(notifications)
  /\ notifications' = [notifications EXCEPT ![k] = markAsRead(@, clock)]
  /\ UNCHANGED <<issues, nextId, outbox, stats, reqs, started>>
  /\ UNCHANGED <<sockVars, rateVars, clientVars, blockVars>>

MarkAllAsRead(userId) ==
  /\ notifications' = markAllAsRead(notifications, userId, clock)
  /\ UNCHANGED <<issues, nextId, outbox, stats, reqs, started>>
  /\ UNCHANGED <<sockVars, rateVars, clientVars, blockVars>>

NextRead ==
  \/ NextNotify
  \/ \E k \in 1..MaxNotes : MarkAsRead(k)
  \/ \E userId \in {"cit", "adm", "hd"} : MarkAllAsRead(userId)
  \/ Tick

SpecRead == Init /\ [][NextRead]_vars

\* ------------------------------------------------------------- try.js
\* this.maxReconnectAttempts = 5
maxReconnectAttempts == 5

\* handleReconnect(): the test of the counter, then setTimeout; the counter is
\* raised by the callback, not here
handleReconnect ==
  IF reconnectAttempts < maxReconnectAttempts
  THEN /\ timers < MaxTimers
       /\ timers' = timers + 1
       /\ UNCHANGED reconnectAttempts
  ELSE UNCHANGED <<timers, reconnectAttempts>>

\* SocketManager.connect(): a new socket with its handlers; earlier sockets are
\* not closed
ClientConnect ==
  /\ clientSocks = 0
  /\ clientSocks' = 1
  /\ UNCHANGED <<reconnectAttempts, timers, clientUp>>
  /\ UNCHANGED <<restVars, sockVars, rateVars, blockVars>>

\* socket.on('connect'): the counter is reset
ClientConnected ==
  /\ clientUp < clientSocks
  /\ clientUp' = clientUp + 1
  /\ reconnectAttempts' = 0
  /\ UNCHANGED <<timers, clientSocks>>
  /\ UNCHANGED <<restVars, sockVars, rateVars, blockVars>>

\* socket.on('connect_error') of a socket that is not connected: the library
\* reports every failed attempt of such a socket, the handler calls handleReconnect
ClientConnectError ==
  /\ clientUp < clientSocks
  /\ handleReconnect
  /\ UNCHANGED <<clientSocks, clientUp>>
  /\ UNCHANGED <<restVars, sockVars, rateVars, blockVars>>

\* the setTimeout callback: this.reconnectAttempts++; this.connect()
ReconnectTimer ==
  /\ timers > 0
  /\ clientSocks < MaxSockets
  /\ timers' = timers - 1
  /\ reconnectAttempts' = reconnectAttempts + 1
  /\ clientSocks' = clientSocks + 1
  /\ UNCHANGED clientUp
  /\ UNCHANGED <<restVars, sockVars, rateVars, blockVars>>

NextClient ==
  \/ ClientConnect
  \/ ClientConnected
  \/ ClientConnectError
  \/ ReconnectTimer

SpecClient == Init /\ [][NextClient]_vars

\* ------------------------------------------------ security middleware
\* ipBlocking.block(ip, duration): blockedIPs.add(ip) and a timer that deletes
\* the ip after duration
Block(ip, duration) ==
  /\ Len(blocks) < MaxBlocks
  /\ blockedIPs' = blockedIPs \cup {ip}
  /\ blocks' = Append(blocks, [ip |-> ip, at |-> clock, duration |-> duration])
  /\ blockTimers' = blockTimers \cup {Len(blocks) + 1}
  /\ UNCHANGED <<restVars, sockVars, rateVars, clientVars>>

\* the setTimeout callback of call b, not before its delay has passed:
\* blockedIPs.delete(ip)
BlockTimer(b) ==
  /\ b \in blockTimers
  /\ blocks[b].at + blocks[b].duration <= clock
  /\ blockedIPs' = blockedIPs \ {blocks[b].ip}
  /\ blockTimers' = blockTimers \ {b}
  /\ UNCHANGED blocks
  /\ UNCHANGED <<restVars, sockVars, rateVars, clientVars>>

NextBlock ==
  \/ \E ip \in {"ip1", "ip2"}, duration \in 1..MaxWindow : Block(ip, duration)
  \/ \E b \in 1..MaxBlocks : BlockTimer(b)
  \/ Tick

SpecBlock == Init /\ [][NextBlock]_vars





Spec == Init /\ [][Next]_vars
\* ===================================================================
\* Properties
\* ===================================================================
IsPrefix(p, q) == Len(p) <= Len(q) /\ SubSeq(q, 1, Len(p)) = p

\* the entries appended to issue i by the step
Appended(i) == SubSeq(issues'[i].timeline, Len(issues[i].timeline) + 1, Len(issues'[i].timeline))

\* the status-change entries of a timeline, in order
StatusEntries(tl) == SelectSeq(tl, LAMBDA e : e.action \in Statuses)

Kept == DOMAIN issues \cap DOMAIN issues'

\* the slots whose request takes a step
Stepping(kind) == {s \in Slots : reqs'[s] # reqs[s] /\ reqs'[s].kind = kind}

\* C1: every status change of a stored issue comes with exactly one appended
\* status-change entry that records the status held before it and the status after
\* it, and no status-change entry is appended otherwise.
C1_OneEntryPerTransition ==
  [][\A i \in Kept :
       (issues'[i].status # issues[i].status \/ StatusEntries(Appended(i)) # <<>>) =>
          /\ Len(StatusEntries(Appended(i))) = 1
          /\ StatusEntries(Appended(i))[1].metadata.oldStatus = issues[i].status
          /\ StatusEntries(Appended(i))[1].metadata.newStatus = issues'[i].status
          /\ StatusEntries(Appended(i))[1].action = issues'[i].status]_vars

\* C2: the timeline of an issue is append-only: whatever a transition, an assign,
\* an update, an upvote or a view does, the stored timeline before the step is a
\* prefix of the stored timeline after it.
C2_TimelineAppendOnly ==
  [][\A i \in Kept : IsPrefix(issues[i].timeline, issues'[i].timeline)]_vars

C2_Witness ==
  \E i \in DOMAIN issues :
    /\ Len(issues[i].timeline) >= 3
    /\ \E k \in 1..Len(issues[i].timeline) : issues[i].timeline[k].action = "assigned"
    /\ StatusEntries(issues[i].timeline) # <<>>

\* C3: concurrent transitions of one issue are serialized: the status-change
\* entries of its timeline form a chain from 'submitted' (each entry's old status is
\* the new status of the entry before it) and the stored status is the new status of
\* the last entry.
Chained(tl, status) ==
  LET es == StatusEntries(tl) IN
  /\ \A k \in 1..Len(es) :
       es[k].metadata.oldStatus = (IF k = 1 THEN "submitted" ELSE es[k - 1].metadata.newStatus)
  /\ status = (IF es = <<>> THEN "submitted" ELSE es[Len(es)].metadata.newStatus)

C3_TransitionsSerialized ==
  \A i \in DOMAIN issues : Chained(issues[i].timeline, issues[i].status)

\* C4: a transition is applied only for an admin, or for a department head or field
\* officer of the issue's category; the request of any other actor is refused when
\* it arrives (403, or 400 for a malformed body) and changes neither issues nor
\* notifications.
AuthorizedFor(u, category) ==
  \/ UserRole(u) = "admin"
  \/ UserRole(u) \in {"department_head", "field_officer"} /\ UserDept(u) = category

C5_TerminalStatuses ==
  [][\A s \in Stepping("status") : \A i \in Kept :
       issues[i].status \in {"closed", "rejected"} =>
         /\ issues'[i].status = issues[i].status
         /\ issues'[i].timeline = issues[i].timeline]_vars

ExpectedNotifications(r, s) ==
  IF r.kind = "status"
  THEN <<Notif(r.doc.reportedBy, r.user, "issue_updated", r.issue, s)>>
  ELSE <<Notif(r.doc.reportedBy, r.user, "issue_assigned", r.issue, s)>>
         \o (IF r.arg.assignee # "-"
             THEN <<Notif(r.arg.assignee, r.user, "issue_assigned", r.issue, s)>> ELSE <<>>)

C8_SuccessDespiteNotification ==
  \A s \in Slots :
    (reqs[s].kind = "status" /\ reqs[s].pc = "done" /\ reqs[s].applied) => reqs[s].res = 200

\* C9: the fan-out of a created issue does not raise: the request is answered with
\* 201 and every active department head or field officer of the issue's category
\* has a notification or a reported error.
Recipients(category) ==
  {u \in Users : UserActive(u) /\ UserDept(u) = category
                   /\ UserRole(u) \in {"department_head", "field_officer"}}

BadCredential(c) ==
  \/ c.k \in {"none", "malformed", "expired"}
  \/ c.id \notin Users
  \/ ~UserActive(c.id)

C10_RefusedBeforeAnyRoom ==
  \A c \in DOMAIN attempts :
    BadCredential(attempts[c]) =>
      /\ c \notin DOMAIN getConnectedUsers
      /\ \A d \in DOMAIN socks : \A room \in socks[d].rooms : c \notin InRoom(room)
      /\ inbox[c] = <<>>

C10_Witness ==
  /\ \E c \in DOMAIN attempts : attempts[c].k = "expired"
  /\ \E d \in DOMAIN socks : inbox[d] # <<>>

\* ------------------------------------------------------------- C11
\* the members of a room: the live sockets that hold it
Members(room) == {c \in DOMAIN socks : room \in socks[c].rooms}

\* the step is an io.to(room).emit of the server
ServerEmit == Len(sent') = Len(sent) + 1 /\ sent'[Len(sent')].from = "server"

\* C11: an event the server emits to a room is appended to the inbox of every
\* connection that is a member of the room when it is emitted and to no other
\* inbox; whatever a step delivers to a connection is the event emitted in that
\* very step, so a connection that joins later never receives an earlier event.
C11_DeliveredToMembersNoReplay ==
  [][ /\ ServerEmit =>
          \A c \in DOMAIN inbox :
            inbox'[c] = IF c \in Members(sent'[Len(sent')].room)
                        THEN Append(inbox[c], sent'[Len(sent')])
                        ELSE inbox[c]
      /\ \A c \in DOMAIN inbox :
            \/ inbox'[c] = inbox[c]
            \/ /\ Len(sent') = Len(sent) + 1
               /\ inbox'[c] = Append(inbox[c], sent'[Len(sent')])
    ]_vars

\* a connection in issue room 1 that holds the second event emitted to the room
\* and not the first one, emitted before it joined
C11_Witness ==
  \E c \in DOMAIN socks :
    /\ IssueRoom(1) \in socks[c].rooms
    /\ Len(sent) = 2
    /\ sent[1].room = IssueRoom(1) /\ sent[1].from = "server"
    /\ sent[2].room = IssueRoom(1) /\ sent[2].from = "server"
    /\ inbox[c] = <<sent[2]>>

\* ------------------------------------------------------------- C12
\* the events of a room in an inbox, in the order the client got them
OfRoom(q, room) == SelectSeq(q, LAMBDA e : e.room = room)

\* C12: what a connection has received from a room is in the server's emission
\* order: every received event is the one the server emitted under that number,
\* and the numbers increase along the inbox.
C12_RoomOrder ==
  \A c \in DOMAIN inbox :
    \A room \in {inbox[c][k].room : k \in 1..Len(inbox[c])} :
      LET q == OfRoom(inbox[c], room) IN
      /\ \A k \in 1..Len(q) : q[k].seq \in 1..Len(sent) /\ sent[q[k].seq] = q[k]
      /\ \A j, k \in 1..Len(q) : j < k => q[j].seq < q[k].seq

\* a connection that stayed in a room and holds two events of that room
C12_Witness ==
  \E c \in DOMAIN socks :
    \E room \in socks[c].rooms :
      /\ Len(OfRoom(inbox[c], room)) = 2
      /\ Len(OfRoom(sent, room)) = 2

C14_NothingAfterDisconnect ==
  [][\A c \in DOMAIN inbox : c \notin DOMAIN socks => inbox'[c] = inbox[c]]_vars

\* a connection that received an event of its user room, disconnected, and does
\* not hold the event emitted to that room afterwards
C14_Witness ==
  \E c \in DOMAIN inbox :
    /\ HandshakeOk(attempts[c])
    /\ c \notin DOMAIN socks
    /\ Len(sent) = 2
    /\ sent[1].room = UserRoom(JwtVerify(attempts[c]).id)
    /\ sent[2].room = UserRoom(JwtVerify(attempts[c]).id)
    /\ sent[2].from = "server"
    /\ inbox[c] = <<sent[1]>>

\* ------------------------------------------------------------- C15
\* the admitted calls of the key of call i that ran before it and lie within
\* the window that trails it
AdmittedBefore(i) ==
  {j \in 1..(i - 1) :
     /\ calls[j].key = calls[i].key
     /\ calls[j].ok
     /\ calls[i].at - calls[j].at < limiter.windowMs}

\* the times the Map should hold for key k: those of its admitted calls that
\* lay within the window when its last admitted call ran
Recorded(k) ==
  LET mine == SelectSeq(calls, LAMBDA c : c.key = k /\ c.ok)
      last == mine[Len(mine)].at
      kept == SelectSeq(mine, LAMBDA c : last - c.at < limiter.windowMs)
  IN [x \in 1..Len(kept) |-> kept[x].at]

\* C15: a call of the guard is admitted exactly when fewer than maxRequests
\* admitted calls of its key lie within the trailing window; the window that
\* ends at any call holds at most maxRequests admitted calls of its key; and
\* the admitted calls, and only they, are recorded in the Map.
C15_AdmittedIffBelowLimit ==
  /\ \A i \in 1..Len(calls) :
       /\ calls[i].ok <=> Cardinality(AdmittedBefore(i)) < limiter.maxRequests
       /\ Cardinality({j \in 1..i : calls[j].key = calls[i].key /\ calls[j].ok
                          /\ calls[i].at - calls[j].at < limiter.windowMs})
            <= limiter.maxRequests
  /\ \A k \in {calls[i].key : i \in {i \in 1..Len(calls) : calls[i].ok}} :
       k \in DOMAIN requests /\ requests[k] = Recorded(k)

\* six calls of one key within the window of a guard of five: the first five
\* pass, the sixth is refused
C15_Witness ==
  /\ limiter.maxRequests = 5
  /\ Len(calls) = 6
  /\ \A i \in 1..6 : calls[i].key = calls[1].key
  /\ calls[6].at - calls[1].at < limiter.windowMs
  /\ \A i \in 1..5 : calls[i].ok
  /\ ~calls[6].ok

\* ------------------------------------------------------------- C16
\* C16: of two requests of one key that wait in front of the guard together
\* and run at the same time with one slot left in the window, at most one is
\* admitted.
C16_OneSlotOneAdmitted ==
  \A i, j \in 1..Len(calls) :
    ( /\ i < j
      /\ calls[j].n \in calls[i].others
      /\ calls[i].at = calls[j].at
      /\ Cardinality(AdmittedBefore(i)) = limiter.maxRequests - 1 )
    => ~(calls[i].ok /\ calls[j].ok)

\* two requests of one key waited together with one slot left; the one that ran
\* first was admitted and the other refused, although it had arrived first
C16_Witness ==
  \E i, j \in 1..Len(calls) :
    /\ i < j
    /\ calls[j].n \in calls[i].others
    /\ calls[j].n < calls[i].n
    /\ calls[i].at = calls[j].at
    /\ Cardinality(AdmittedBefore(i)) = limiter.maxRequests - 1
    /\ calls[i].ok /\ ~calls[j].ok

\* ------------------------------------------------------------- C17
\* the upvote handler run on a stored issue with no other request between its
\* findById and its save: the stored issue afterwards
UpvoteAlone(doc, u) == SaveUpvotes(doc, doc, ToggleUpvote(doc, u))

\* data.isUpvoted of the response: existingUpvoteIndex === -1
RespIsUpvoted(doc, u) == \A k \in 1..Len(doc.upvotes) : doc.upvotes[k] # u

\* C17: on every stored issue, two consecutive runs of the upvote handler for
\* one user give back the upvote list the issue had, hence its count, and the
\* second answer's isUpvoted says what held before the first: that the user
\* has upvoted the issue.
C17_ToggleTwiceRestores ==
  \A i \in DOMAIN issues :
    \A u \in Users :
      LET once == UpvoteAlone(issues[i], u)
          twice == UpvoteAlone(once, u)
      IN /\ twice.upvotes = issues[i].upvotes
         /\ Len(twice.upvotes) = Len(issues[i].upvotes)
         /\ RespIsUpvoted(once, u) = ~RespIsUpvoted(issues[i], u)

\* ------------------------------------------------------------- C18
\* C18: the upvote list of a stored issue holds each user at most once.
C18_OneUpvotePerUser ==
  \A i \in DOMAIN issues :
    \A j, k \in 1..Len(issues[i].upvotes) :
      issues[i].upvotes[j] = issues[i].upvotes[k] => j = k

InvalidAssignee(assignee, department) ==
  assignee \notin Users \/ UserDept(assignee) # department

\* C20: an assign by an authorized actor on an existing issue, with a valid
\* department, that names an assignee who does not exist or is not of the
\* department is answered with the client error 400 that names the assignee,
\* and changes no issue and creates no notification.
C20_InvalidAssigneeRefused ==
  [][\A s \in Slots :
       LET r == reqs'[s] IN
       ( /\ reqs'[s] # reqs[s]
         /\ r.kind = "assign" /\ r.pc = "done"
         /\ r.arg.assignee # "-"
         /\ InvalidAssignee(r.arg.assignee, r.arg.department)
         /\ r.arg.department \in Departments
         /\ r.res \notin {401, 403, 404} )
       => /\ r.res = 400
          /\ UNCHANGED <<issues, notifications, outbox>>
    ]_vars

\* ------------------------------------------------------------- C21
\* the realtime channel of a notification is requested
Realtime(n) == n.channels.push \/ n.channels.inApp

\* the notifications and the emissions a step adds
NewNotifications == SubSeq(notifications', Len(notifications) + 1, Len(notifications'))
NewEmissions == SubSeq(outbox', Len(outbox) + 1, Len(outbox'))

CreatedNotified(i) ==
  {notifications[k].recipient :
     k \in {k \in 1..Len(notifications) :
              notifications[k].type = "issue_created" /\ notifications[k].relatedIssue = i}}

C23_NeverHardDeleted ==
  [][\A i \in DOMAIN issues :
       Len(issues[i].timeline) > 0 => i \in DOMAIN issues']_vars

C25_EmergencyOnlyByAdmin ==
  /\ \A k \in 1..Len(sent) :
       sent[k].event = "emergency_notification" => UserRole(sent[k].from) = "admin"
  /\ \A c \in DOMAIN inbox :
       \A k \in 1..Len(inbox[c]) :
         inbox[c][k].event = "emergency_notification" =>
           /\ UserRole(inbox[c][k].from) = "admin"
           /\ \E x \in DOMAIN attempts :
                HandshakeOk(attempts[x]) /\ JwtVerify(attempts[x]).id = inbox[c][k].from

\* a connection that is not an admin's holds the emergency notification of an
\* admin's alert
C25_Witness ==
  \E c \in DOMAIN socks :
    /\ UserRole(socks[c].user) # "admin"
    /\ \E k \in 1..Len(inbox[c]) :
         inbox[c][k].event = "emergency_notification" /\ UserRole(inbox[c][k].from) = "admin"

\* ------------------------------------------------------------- C28
\* C28: an issue_updated event that a client's issue_status_update makes the
\* server emit to the watchers of an issue carries the status the issue has in
\* storage when it is emitted.
C28_RelayedStatusIsStored ==
  [][(/\ Len(sent') = Len(sent) + 1
      /\ sent'[Len(sent')].event = "issue_updated"
      /\ sent'[Len(sent')].from # "server")
     => /\ sent'[Len(sent')].room.name \in DOMAIN issues
        /\ issues[sent'[Len(sent')].room.name].status = sent'[Len(sent')].data
    ]_vars

\* ------------------------------------------------------------- C29
\* the identity a connection authenticated as
Identity(c) == JwtVerify(attempts[c]).id

\* the connections whose inbox grows in the step
Receivers == {c \in DOMAIN inbox : inbox'[c] # inbox[c]}

\* C29: an emit of the server to the user room of u reaches exactly the live
\* connections authenticated as u, and no connection ever holds an event
\* addressed to the user room of another identity.
C29_UserRoomIsPrivate ==
  [][/\ (ServerEmit /\ sent'[Len(sent')].room.kind = "user") =>
          Receivers = {c \in DOMAIN socks : Identity(c) = sent'[Len(sent')].room.name}
     /\ \A c \in DOMAIN inbox' :
          \A k \in 1..Len(inbox'[c]) :
            inbox'[c][k].room.kind = "user" => inbox'[c][k].room.name = Identity(c)
    ]_vars

\* a connection that has joined an issue room holds the event emitted to its
\* user room; a live connection of another identity, which got the direct
\* message sent before, does not hold it
C29_Witness ==
  \E c, d \in DOMAIN socks :
    /\ Identity(c) # Identity(d)
    /\ IssueRoom(1) \in socks[c].rooms
    /\ Len(sent) = 2
    /\ sent[1].event = "new_message" /\ inbox[d] = <<sent[1]>>
    /\ sent[2].from = "server" /\ sent[2].room = UserRoom(Identity(c))
    /\ inbox[c] = <<sent[2]>>

\* ------------------------------------------------------------- C30
\* C30: every emission a step adds is that of a notification the step
\* persists; a notification about a status change is persisted only by a
\* request whose save has stored its status and its timeline entry; and a
\* request whose save fails ends without notification and without emission.
C30_PersistedBeforeEmitted ==
  [][/\ Len(NewEmissions) <= Len(NewNotifications)
     /\ \A k \in 1..Len(NewEmissions) :
          /\ NewEmissions[k].room = UserRoom(NewNotifications[k].recipient)
          /\ NewEmissions[k].type = NewNotifications[k].type
     /\ \A k \in 1..Len(NewNotifications) :
          NewNotifications[k].type = "issue_updated" =>
            LET r == reqs[NewNotifications[k].slot] IN
            /\ r.kind = "status" /\ r.pc = "saved" /\ r.applied
            /\ r.issue \in DOMAIN issues =>
                 \E j \in 1..Len(issues[r.issue].timeline) :
                   /\ issues[r.issue].timeline[j].action = r.arg.status
                   /\ issues[r.issue].timeline[j].performedBy = r.user
                   /\ issues[r.issue].timeline[j].metadata.newStatus = r.arg.status
     /\ \A s \in Stepping("status") :
          (reqs'[s].pc = "done" /\ reqs'[s].res = 500) =>
             (reqs'[s].made = <<>> /\ outbox' = outbox)
    ]_vars

\* two status requests have ended: one persisted its notification, which is
\* the only emission; the other failed and left none
C30_Witness ==
  \E s, t \in Slots :
    /\ reqs[s].kind = "status" /\ reqs[s].res = 200 /\ reqs[s].made # <<>>
    /\ reqs[t].kind = "status" /\ reqs[t].res = 500
    /\ Len(outbox) = 1 /\ Len(notifications) = 1
    /\ outbox[1].type = "issue_updated"

\* ------------------------------------------------------------- C26
\* C26: the reconnect counter of the client never exceeds maxReconnectAttempts,
\* and no socket is created once the counter has reached it.
C26_ReconnectCapped ==
  [][/\ reconnectAttempts' <= maxReconnectAttempts
     /\ ~(reconnectAttempts >= maxReconnectAttempts /\ clientSocks' > clientSocks)
    ]_vars

\* ------------------------------------------------------------- C31
\* C31: the step in which a request to PUT /:id ends in failure leaves the
\* stored fields of every issue as they were.
C31_UpdateAllOrNothing ==
  [][\A s \in Stepping("update") :
       (reqs'[s].pc = "done" /\ reqs'[s].res # 200) =>
          \A i \in Kept : issues'[i].title = issues[i].title
    ]_vars

\* ------------------------------------------------------------- C32
\* GET /:id: the privacy check, for a user that is authenticated
MayRead(u, doc) ==
  doc.isPublic
    \/ u = doc.reportedBy
    \/ UserRole(u) \in {"admin", "department_head", "field_officer"}

\* issue 1 taken as a non-public issue reported by the admin
PrivateIssue == [isPublic |-> FALSE, reportedBy |-> "adm"]

\* C32: with issue 1 a non-public issue, every connection that holds an event
\* of the room of issue 1 is one of a user that may read the issue over REST:
\* its reporter or a member of staff.
C32_PrivateRoomReadersOnly ==
  \A c \in DOMAIN inbox :
    \A k \in 1..Len(inbox[c]) :
      inbox[c][k].room = IssueRoom(1) => MayRead(Identity(c), PrivateIssue)

\* ------------------------------------------------------------- C33
\* the call the step runs, when it runs one
RanCall == calls'[Len(calls')]

\* C33: a refused call leaves the Map as it is; a call of a key whose admitted
\* calls within the trailing window are fewer than maxRequests is admitted,
\* whatever was refused before; and after an admitted call the Map holds for
\* its key at most maxRequests times, none of them older than the window.
C33_RejectedNotRecorded ==
  [][Len(calls') = Len(calls) + 1 =>
       /\ ~RanCall.ok => requests' = requests
       /\ Cardinality({j \in 1..Len(calls) :
                          /\ calls[j].key = RanCall.key
                          /\ calls[j].ok
                          /\ clock - calls[j].at < limiter.windowMs}) < limiter.maxRequests
            => RanCall.ok
       /\ RanCall.ok =>
            /\ Len(requests'[RanCall.key]) <= limiter.maxRequests
            /\ \A x \in 1..Len(requests'[RanCall.key]) :
                 clock - requests'[RanCall.key][x] < limiter.windowMs
    ]_vars

\* a key that was refused and, the window having moved on, is admitted again
C33_Witness ==
  \E i, j \in 1..Len(calls) :
    /\ i < j
    /\ calls[i].key = calls[j].key
    /\ ~calls[i].ok /\ calls[j].ok
    /\ \A x \in (i + 1)..(j - 1) : calls[x].key # calls[i].key

\* ------------------------------------------------------------- C34
\* C34: when a connection that has joined issue rooms disconnects, every
\* other member of each of those rooms receives in that step a user_offline
\* event of the room that names the user.
C34_OfflineAnnounced ==
  [][\A c \in DOMAIN socks :
       c \notin DOMAIN socks' =>
         \A room \in {r \in socks[c].rooms : r.kind = "issue"} :
           \A d \in Members(room) \ {c} :
             /\ Len(inbox'[d]) = Len(inbox[d]) + 1
             /\ inbox'[d][Len(inbox'[d])].event = "user_offline"
             /\ inbox'[d][Len(inbox'[d])].room = room
             /\ inbox'[d][Len(inbox'[d])].from = socks[c].user
    ]_vars

\* ------------------------------------------------------------- C35
\* C35: an ip is blocked as long as one of its blocks is running, that is
\* until the duration of its most recent block has passed.
C35_BlockedWhileRunning ==
  \A b \in 1..Len(blocks) :
    clock < blocks[b].at + blocks[b].duration => blocks[b].ip \in blockedIPs

\* ------------------------------------------------------------- C36
OwnRooms(rooms) == {r \in rooms : r.kind # "issue"}

\* C36: joining an issue room the connection is in, or leaving one it is not
\* in, leaves its room set as it was; and a join_issue or leave_issue step
\* changes neither the connection's user, role and department rooms nor any
\* other connection.
C36_JoinLeaveIdempotent ==
  /\ [](\A c \in DOMAIN socks : \A i \in IssueIds :
          /\ IssueRoom(i) \in socks[c].rooms =>
               socketJoin(socks[c].rooms, IssueRoom(i)) = socks[c].rooms
          /\ IssueRoom(i) \notin socks[c].rooms =>
               socketLeave(socks[c].rooms, IssueRoom(i)) = socks[c].rooms)
  /\ [][\A c \in 1..MaxConns : \A i \in IssueIds :
          (JoinIssue(c, i) \/ LeaveIssue(c, i)) =>
             /\ DOMAIN socks' = DOMAIN socks
             /\ socks'[c].user = socks[c].user
             /\ OwnRooms(socks'[c].rooms) = OwnRooms(socks[c].rooms)
             /\ socks'[c].rooms \ socks[c].rooms \subseteq {IssueRoom(i)}
             /\ socks[c].rooms \ socks'[c].rooms \subseteq {IssueRoom(i)}
             /\ \A d \in DOMAIN socks \ {c} : socks'[d] = socks[d]]_vars

\* one connection is in the issue room, another one is not
C36_Witness ==
  \E c, d \in DOMAIN socks :
    /\ IssueRoom(1) \in socks[c].rooms
    /\ OwnRooms(socks[c].rooms) # {}
    /\ IssueRoom(1) \notin socks[d].rooms
    /\ socks[d].rooms # {}

\* ------------------------------------------------------------- C37
ReadState(n) == <<n.isRead, n.readAt>>

C38_ResolutionTimeOnlyByResolved ==
  /\ [](\A i \in DOMAIN issues :
          issues[i].status = "resolved" => issues[i].actualResolutionTime)
  /\ [][\A i \in Kept :
          /\ issues'[i].actualResolutionTime # issues[i].actualResolutionTime =>
               issues'[i].status = "resolved" /\ issues'[i].actualResolutionTime
          /\ (issues'[i].status # issues[i].status /\ issues'[i].status # "resolved") =>
               issues'[i].actualResolutionTime = issues[i].actualResolutionTime]_vars

\* an issue was resolved and then moved on, keeping its stamp, while one
\* status request of it is done
C38_Witness ==
  \E i \in DOMAIN issues :
    /\ issues[i].status \notin {"resolved", "pending"}
    /\ issues[i].actualResolutionTime
    /\ \E s \in Slots : reqs[s].kind = "status" /\ reqs[s].pc = "done" /\ reqs[s].res = 200

\* ------------------------------------------------------------- C39
\* C39: a step in which an upvote request succeeds adds one timeline entry of
\* the requesting user to the issue and leaves the status of the issue as it
\* was.
C39_UpvoteRecorded ==
  [][\A s \in Stepping("upvote") :
       (reqs[s].pc = "loaded" /\ reqs'[s].pc = "done" /\ reqs'[s].res = 200) =>
          LET i == reqs[s].issue IN
            /\ i \in Kept
            /\ issues'[i].status = issues[i].status
            /\ Len(issues'[i].timeline) = Len(issues[i].timeline) + 1
            /\ issues'[i].timeline[Len(issues'[i].timeline)].performedBy = reqs[s].user
    ]_vars

\* ------------------------------------------------------------- C40
\* C40: a stored notification has push on, email off and sms off when its
\* recipient has stored no preference of their own, and otherwise its push,
\* email and sms channels are those of the recipient's preference.
C40_ChannelsFollowPreference ==
  \A k \in 1..Len(notifications) :
    LET n == notifications[k]
        pref == Preferences(n.recipient)
    IN IF pref = SchemaPreferences
       THEN n.channels.push /\ ~n.channels.email /\ ~n.channels.sms
       ELSE /\ n.channels.push = pref.push
            /\ n.channels.email = pref.email
            /\ n.channels.sms = pref.sms
====
